---- MODULE Spec2Model ----
(***************************************************************************)
(* Model of the com.apple.mobile.MCInstall client (src/src/mcinstall.c):   *)
(* the profile client, its result classifier and its use of the property   *)
(* list (plist) node tree and of the property list service channel.        *)
(***************************************************************************)
EXTENDS Integers, Sequences, FiniteSets, Bags, TLC

(***************************************************************************)
(* Bounds of the model.                                                    *)
(***************************************************************************)
\* largest byte value used in profile payloads
MaxByte == 1
\* how many times the caller may pass one handle to mcinstall_client_free
MaxCloses == 2
\* how many requests one client sends over its channel
MaxRequests == 3

(***************************************************************************)
(* mcinstall_error_t (include/libimobiledevice/mcinstall.h:38-45).         *)
(***************************************************************************)
MCINSTALL_E_SUCCESS == 0
MCINSTALL_E_INVALID_ARG == -1
MCINSTALL_E_PLIST_ERROR == -2
MCINSTALL_E_CONN_FAILED == -3
MCINSTALL_E_REQUEST_FAILED == -4
MCINSTALL_E_UNKNOWN_ERROR == -256

\* what mcinstall_get_status_code answers for a NULL client (mcinstall.c:278)
STATUS_NO_CLIENT == -1
\* the value mcinstall_client_new stores in last_error (mcinstall.c:123)
STATUS_INITIAL == 0

(***************************************************************************)
(* property_list_service_error_t: the codes the channel can report.  Only  *)
(* the first four are named by mcinstall_error (mcinstall.c:46-57).        *)
(***************************************************************************)
PLS_ERRORS == {"PLS_E_SUCCESS", "PLS_E_INVALID_ARG", "PLS_E_PLIST_ERROR",
               "PLS_E_MUX_ERROR", "PLS_E_SSL_ERROR", "PLS_E_RECEIVE_TIMEOUT",
               "PLS_E_UNKNOWN_ERROR"}

\* a mapping that has no case for the mux error
mcinstall_error_without_mux(err) ==
    CASE err = "PLS_E_SUCCESS"     -> MCINSTALL_E_SUCCESS
      [] err = "PLS_E_INVALID_ARG" -> MCINSTALL_E_INVALID_ARG
      [] err = "PLS_E_PLIST_ERROR" -> MCINSTALL_E_PLIST_ERROR
      [] OTHER                     -> MCINSTALL_E_UNKNOWN_ERROR

\* a mapping whose default case answers success
mcinstall_error_default_success(err) ==
    CASE err = "PLS_E_SUCCESS"     -> MCINSTALL_E_SUCCESS
      [] err = "PLS_E_INVALID_ARG" -> MCINSTALL_E_INVALID_ARG
      [] err = "PLS_E_PLIST_ERROR" -> MCINSTALL_E_PLIST_ERROR
      [] err = "PLS_E_MUX_ERROR"   -> MCINSTALL_E_CONN_FAILED
      [] OTHER                     -> MCINSTALL_E_SUCCESS

mcinstall_error(err) ==
    CASE err = "PLS_E_SUCCESS"     -> MCINSTALL_E_SUCCESS
      [] err = "PLS_E_INVALID_ARG" -> MCINSTALL_E_INVALID_ARG
      [] err = "PLS_E_PLIST_ERROR" -> MCINSTALL_E_PLIST_ERROR
      [] err = "PLS_E_MUX_ERROR"   -> MCINSTALL_E_CONN_FAILED
      [] OTHER                     -> MCINSTALL_E_UNKNOWN_ERROR

(***************************************************************************)
(* The plist node tree.  A node has an identity (owner, path), a type, a   *)
(* string value (keys and strings), an integer value (uints: the eight     *)
(* bytes of a uint64_t, most significant first), a byte buffer (data) and  *)
(* an ordered list of children.  A dict keeps its entries as children key, *)
(* value, key, value, ...                                                  *)
(***************************************************************************)
\* the uint64_t whose low bytes are bs (most significant first)
U64(bs) == [i \in 1..(8 - Len(bs)) |-> 0] \o bs

NoId == [o |-> "none", p |-> <<>>]

NullNode == [id |-> NoId, t |-> "none", s |-> "", n |-> <<>>, b |-> <<>>, kids |-> <<>>]

IsNull(x) == x.t = "none"

plist_get_node_type(x) == x.t

PKey(k) == [id |-> NoId, t |-> "key", s |-> k, n |-> <<>>, b |-> <<>>, kids |-> <<>>]

plist_new_string(v) == [id |-> NoId, t |-> "string", s |-> v, n |-> <<>>, b |-> <<>>, kids |-> <<>>]

plist_new_uint(v) == [id |-> NoId, t |-> "uint", s |-> "", n |-> v, b |-> <<>>, kids |-> <<>>]

plist_new_data(bytes) == [id |-> NoId, t |-> "data", s |-> "", n |-> <<>>, b |-> bytes, kids |-> <<>>]

plist_new_array(items) == [id |-> NoId, t |-> "array", s |-> "", n |-> <<>>, b |-> <<>>, kids |-> items]

plist_new_dict == [id |-> NoId, t |-> "dict", s |-> "", n |-> <<>>, b |-> <<>>, kids |-> <<>>]

\* plist_dict_set_item on a dict that does not hold the key yet: the key
\* node and the value node are appended to the children
plist_dict_set_item(d, k, v) == [d EXCEPT !.kids = d.kids \o <<PKey(k), v>>]

\* a dict from a list <<k1, v1, k2, v2, ...>> of keys and values
RECURSIVE DictFrom(_, _)
DictFrom(kv, n) ==
    IF n = 0 THEN plist_new_dict
    ELSE plist_dict_set_item(DictFrom(kv, n - 2), kv[n - 1], kv[n])

PDict(kv) == DictFrom(kv, Len(kv))

\* the items of a byte buffer: plain bytes, and the objects of a binary plist
Tok(k, s, v) == [k |-> k, s |-> s, v |-> v]

Byte(a) == Tok("byte", "", a)

\* give every node of a tree its identity: who allocated it, and its path
RECURSIVE Label(_, _, _)
Label(x, o, path) ==
    IF IsNull(x) THEN x
    ELSE [x EXCEPT !.id = [o |-> o, p |-> path],
                   !.kids = [i \in DOMAIN x.kids |-> Label(x.kids[i], o, Append(path, i))]]

\* the value of a tree, without the identities
RECURSIVE Val(_)
Val(x) == [x EXCEPT !.id = NoId, !.kids = [i \in DOMAIN x.kids |-> Val(x.kids[i])]]

\* the identities of all nodes of a tree
RECURSIVE Ids(_)
Ids(x) ==
    IF IsNull(x) THEN {}
    ELSE {x.id} \cup UNION {Ids(x.kids[i]) : i \in DOMAIN x.kids}

\* a copy that leaves the children behind
plist_copy_shallow(x, o) == Label([Val(x) EXCEPT !.kids = <<>>], o, <<>>)

\* plist_copy: a deep copy, allocated anew for owner o
plist_copy(x, o) == Label(Val(x), o, <<>>)

(***************************************************************************)
(* plist_free(x): the node x is taken out of its parent's list of children *)
(* and released together with its subtree.  Detach gives the tree that is  *)
(* left; the released identities are Ids(x).  Releasing a value that was   *)
(* borrowed from a dict leaves the dict with a key that has no value, and  *)
(* every entry behind it shifted by one position.                          *)
(***************************************************************************)
\* plist_free that leaves the released node in its parent
Detach_not(x, id) == x

RECURSIVE Detach(_, _)
Detach(x, id) ==
    LET ks == SelectSeq(x.kids, LAMBDA k : k.id # id)
    IN  [x EXCEPT !.kids = [i \in DOMAIN ks |-> Detach(ks[i], id)]]

Released(x) == SetToBag(Ids(x))

\* the outcome of a lookup that ran into a child which is not a key
FaultNode == [id |-> NoId, t |-> "fault", s |-> "", n |-> <<>>, b |-> <<>>, kids |-> <<>>]

(***************************************************************************)
(* plist_dict_get_item(d, key): the children are walked two by two, each   *)
(* visited child taken for a key and compared with the key asked for; the  *)
(* answer is the child that follows the matching one.  The set holds every *)
(* answer a build can give: on an intact dict there is one.  When the walk *)
(* lands on a child that is no key (the dict lost a value), a build with   *)
(* assertions stops the process, and one without compares the child's      *)
(* string value, if it has one, and walks on.                              *)
(***************************************************************************)
RECURSIVE Scan(_, _, _)
Scan(kids, i, key) ==
    IF i > Len(kids) THEN {NullNode}
    ELSE LET cur == kids[i]
             nxt == IF i + 1 <= Len(kids) THEN kids[i + 1] ELSE NullNode
         IN  IF cur.t = "key"
             THEN IF cur.s = key THEN {nxt} ELSE Scan(kids, i + 2, key)
             ELSE {FaultNode} \cup
                  (IF cur.t = "string" /\ cur.s = key THEN {nxt}
                   ELSE Scan(kids, i + 2, key))

plist_dict_get_item(d, key) ==
    IF d.t = "dict" THEN Scan(d.kids, 1, key) ELSE {NullNode}

(***************************************************************************)
(* mcinstall_check_result (mcinstall.c:70-111).  The answer is the set of  *)
(* outcomes of classifying `response` with *status_code holding            *)
(* `status_code`: the result, what is left of the response tree, the       *)
(* identities released, the lines printed, the value of *status_code on    *)
(* return, and whether the process was stopped inside a lookup.            *)
(***************************************************************************)
Classified(res, resp, freed, out, sc) ==
    [res |-> res, resp |-> resp, freed |-> freed, out |-> out, sc |-> sc, fault |-> FALSE]

Stopped(resp, freed, out, sc) ==
    [res |-> MCINSTALL_E_UNKNOWN_ERROR, resp |-> resp, freed |-> freed, out |-> out,
     sc |-> sc, fault |-> TRUE]

\* mcinstall.c:94-105: the loop over the error chain, from index j on; the
\* lines printed are <<index, description>>
RECURSIVE PrintErrorChain(_, _)
PrintErrorChain(error_chain, j) ==
    IF j >= Len(error_chain.kids) THEN {[fault |-> FALSE, out |-> <<>>]}
    ELSE LET error == error_chain.kids[j + 1]
             here == IF plist_get_node_type(error) = "dict"
                     THEN {IF node.t = "fault" THEN [fault |-> TRUE, out |-> <<>>]
                           ELSE IF ~IsNull(node) /\ plist_get_node_type(node) = "string"
                                THEN [fault |-> FALSE, out |-> <<[j |-> j, s |-> node.s]>>]
                                ELSE [fault |-> FALSE, out |-> <<>>]
                           : node \in plist_dict_get_item(error, "LocalizedDescription")}
                     ELSE {[fault |-> FALSE, out |-> <<>>]}
         IN  UNION {IF h.fault THEN {h}
                    ELSE {[fault |-> r.fault, out |-> h.out \o r.out]
                          : r \in PrintErrorChain(error_chain, j + 1)}
                    : h \in here}

\* the error status taken for a status that is not recognised
ErrorStatus_unrecognised(response, freed, status_code) ==
    {Classified(MCINSTALL_E_REQUEST_FAILED, response, freed, <<>>, status_code)}

\* mcinstall.c:89-108: the status is "Error"; `response` has lost its
\* Status value already
ErrorStatus(response, freed, status_code) ==
    UNION {IF error_chain.t = "fault" THEN {Stopped(response, freed, <<>>, status_code)}
           ELSE LET printed == IF ~IsNull(error_chain)
                                  /\ plist_get_node_type(error_chain) = "array"
                               THEN PrintErrorChain(error_chain, 0)
                               ELSE {[fault |-> FALSE, out |-> <<>>]}
                IN  {IF p.fault THEN Stopped(response, freed, p.out, status_code)
                     ELSE Classified(MCINSTALL_E_PLIST_ERROR,
                                     Detach(response, error_chain.id),
                                     freed (+) Released(error_chain), p.out, status_code)
                     : p \in printed}
           : error_chain \in plist_dict_get_item(response, "ErrorChain")}

mcinstall_check_result(response, status_code) ==
    IF plist_get_node_type(response) # "dict"
    THEN {Classified(MCINSTALL_E_PLIST_ERROR, response, EmptyBag, <<>>, status_code)}
    ELSE UNION {
        IF node.t = "fault" THEN {Stopped(response, EmptyBag, <<>>, status_code)}
        ELSE IF IsNull(node) \/ plist_get_node_type(node) # "string"
        THEN {Classified(MCINSTALL_E_PLIST_ERROR, Detach(response, node.id),
                         Released(node), <<>>, status_code)}
        ELSE LET status == node.s
                 rest == Detach(response, node.id)
             IN  IF status = "Acknowledged"
                 THEN {Classified(MCINSTALL_E_SUCCESS, rest, Released(node), <<>>, status_code)}
                 ELSE IF status = "Error"
                 THEN ErrorStatus(rest, Released(node), status_code)
                 ELSE {Classified(MCINSTALL_E_REQUEST_FAILED, rest, Released(node), <<>>,
                                  status_code)}
        : node \in plist_dict_get_item(response, "Status")}

(***************************************************************************)
(* What the device can answer: the values property_list_service_receive_   *)
(* plist can hand back.  Malformed answers, every kind of Status, error    *)
(* chains and profile listings, with the Status entry first or last.       *)
(***************************************************************************)
StatusValues == {"Acknowledged", "Error", "Pending", "acknowledged", "Errors", ""}

StatusOnly(v) == PDict(<<"Status", plist_new_string(v)>>)

Described(v) == PDict(<<"LocalizedDescription", plist_new_string(v)>>)

Metadata(name, uuid, vers) ==
    PDict(<<"PayloadDisplayName", plist_new_string(name),
            "PayloadUUID", plist_new_string(uuid),
            "PayloadVersion", plist_new_uint(vers)>>)

MalformedAnswers ==
    { plist_new_string("Acknowledged"),
      plist_new_array(<<plist_new_string("Status")>>),
      PDict(<<>>),
      PDict(<<"State", plist_new_string("Acknowledged")>>),
      PDict(<<"Status", plist_new_uint(U64(<<1>>))>>),
      PDict(<<"ErrorChain", plist_new_array(<<Described("x")>>),
              "Status", PDict(<<"Status", plist_new_string("Error")>>)>>),
      PDict(<<"Status", plist_new_array(<<>>), "ErrorChain", plist_new_array(<<>>)>>) }

ErrorAnswers ==
    { PDict(<<"ErrorChain", plist_new_array(<<Described("x"), Described("y")>>),
              "Status", plist_new_string("Error")>>),
      PDict(<<"Status", plist_new_string("Error"),
              "ErrorChain", plist_new_array(<<Described("x")>>)>>),
      PDict(<<"ErrorChain", plist_new_array(<<plist_new_string("x"), PDict(<<>>),
                                             Described("z")>>),
              "Status", plist_new_string("Error")>>),
      PDict(<<"ErrorChain", plist_new_string("x"), "Status", plist_new_string("Error")>>),
      PDict(<<"Status", plist_new_string("Pending"),
              "ErrorChain", plist_new_array(<<Described("x")>>)>>) }

ListingAnswers ==
    { PDict(<<"OrderedIdentifiers", plist_new_array(<<>>),
              "ProfileMetadata", PDict(<<>>),
              "Status", plist_new_string("Acknowledged")>>),
      PDict(<<"Status", plist_new_string("Acknowledged"),
              "OrderedIdentifiers", plist_new_array(<<>>),
              "ProfileMetadata", PDict(<<>>)>>),
      PDict(<<"OrderedIdentifiers", plist_new_array(<<plist_new_string("p1")>>),
              "Status", plist_new_string("Acknowledged"),
              "ProfileMetadata", PDict(<<"p1", Metadata("n1", "u1", U64(<<1>>))>>)>>) }

Answers ==
    {Label(r, "resp", <<>>) :
        r \in {StatusOnly(v) : v \in StatusValues} \cup MalformedAnswers
               \cup ErrorAnswers \cup ListingAnswers}

\* one exchange on the channel, as the device and the transport decide it:
\* the codes of the send and of the receive, and the answer received
\* (NullNode: the receive reported success and handed back no plist)
Exchanges ==
    {[send |-> e, recv |-> "PLS_E_SUCCESS", resp |-> NullNode] : e \in PLS_ERRORS \ {"PLS_E_SUCCESS"}}
    \cup {[send |-> "PLS_E_SUCCESS", recv |-> e, resp |-> NullNode] : e \in PLS_ERRORS}
    \cup {[send |-> "PLS_E_SUCCESS", recv |-> "PLS_E_SUCCESS", resp |-> r] : r \in Answers}

(***************************************************************************)
(* A client as an operation sees it: a NULL handle, or the fields of       *)
(* struct mcinstall_client_private (src/mcinstall.h:28-31).  parent is     *)
(* "chan" while the client holds its channel and "NULL" otherwise.         *)
(***************************************************************************)
NullClient == [isnull |-> TRUE, parent |-> "NULL", last_error |-> 0]

LiveClient(parent, last_error) ==
    [isnull |-> FALSE, parent |-> parent, last_error |-> last_error]

(***************************************************************************)
(* What one call of install, list or remove did: its result, the value it  *)
(* left in client->last_error, the sends and receives it made, the request *)
(* it sent, the answer it received and what is left of it, the identities  *)
(* it released, the lines it printed, whether the process was stopped in   *)
(* it, and the value it left in the caller's *profiles.                    *)
(***************************************************************************)
NoExchange(res, last_error, profiles) ==
    [res |-> res, last_error |-> last_error, nsend |-> 0, nrecv |-> 0,
     req |-> NullNode, senderr |-> "none", recverr |-> "none",
     resp |-> NullNode, left |-> NullNode, freed |-> EmptyBag, out |-> <<>>,
     fault |-> FALSE, profiles |-> profiles]

\* an operation that leaves client->last_error as it found it
reset_last_error_skipped(client) == client.last_error

\* mcinstall.c:156, 192, 230: client->last_error = MCINSTALL_E_UNKNOWN_ERROR,
\* the first statement after the test of the arguments
reset_last_error(client) == MCINSTALL_E_UNKNOWN_ERROR

\* the arguments a caller can pass as the profile to install
ByteSeqs == {<<>>} \cup {<<Byte(a)>> : a \in 0..MaxByte} \cup {<<Byte(MaxByte), Byte(0)>>}

ProfileArgs ==
    {NullNode} \cup
    {Label(x, "arg", <<>>) :
        x \in {plist_new_string("profile")} \cup {plist_new_data(b) : b \in ByteSeqs}}

(***************************************************************************)
(* mcinstall_install (mcinstall.c:151-185).                                *)
(***************************************************************************)
\* install that does not look at the type of the profile node
install_refuses_untyped(client, profile) ==
    client.isnull \/ client.parent = "NULL" \/ IsNull(profile)

\* mcinstall.c:153, the arguments install refuses
install_refuses(client, profile) ==
    client.isnull \/ client.parent = "NULL" \/ IsNull(profile)
    \/ plist_get_node_type(profile) # "data"

\* install that puts the caller's node itself into the request
install_request_uncopied(profile) ==
    LET dict == Label(plist_dict_set_item(
                        plist_dict_set_item(plist_new_dict, "RequestType",
                                            plist_new_string("InstallProfile")),
                        "Payload", plist_new_data(<<>>)), "req", <<>>)
    IN  [dict EXCEPT !.kids[4] = profile]

\* mcinstall.c:158-160, the request install builds
install_request(profile) ==
    Label(plist_dict_set_item(
            plist_dict_set_item(plist_new_dict, "RequestType",
                                plist_new_string("InstallProfile")),
            "Payload", plist_copy(profile, "req")), "req", <<>>)

mcinstall_install(client, profile, x) ==
    IF install_refuses(client, profile)
    THEN {NoExchange(MCINSTALL_E_INVALID_ARG, client.last_error, NullNode)}
    ELSE
    LET dict == install_request(profile)
        sent == [NoExchange(mcinstall_error(x.send), reset_last_error(client), NullNode)
                   EXCEPT !.nsend = 1, !.req = dict, !.senderr = x.send,
                          !.freed = Released(dict)]
        received == [sent EXCEPT !.res = mcinstall_error(x.recv), !.nrecv = 1,
                                 !.recverr = x.recv]
    IN  IF sent.res # MCINSTALL_E_SUCCESS THEN {sent}
        ELSE IF received.res # MCINSTALL_E_SUCCESS THEN {received}
        ELSE IF IsNull(x.resp)
        THEN {[received EXCEPT !.res = MCINSTALL_E_UNKNOWN_ERROR]}
        ELSE {IF c.fault
              THEN [received EXCEPT !.fault = TRUE, !.resp = x.resp, !.left = c.resp,
                                    !.last_error = c.sc, !.out = c.out,
                                    !.freed = @ (+) c.freed]
              ELSE [received EXCEPT !.res = c.res, !.resp = x.resp,
                                    !.last_error = c.sc, !.out = c.out,
                                    !.freed = @ (+) c.freed (+) Released(c.resp)]
              : c \in mcinstall_check_result(x.resp, received.last_error)}

(***************************************************************************)
(* mcinstall_get_profile_list (mcinstall.c:187-224).  `profiles` is the    *)
(* caller's output pointer: has = FALSE is a NULL pointer, val the value   *)
(* it points to before the call.                                           *)
(***************************************************************************)
mcinstall_get_profile_list(client, profiles, x) ==
    IF client.isnull \/ client.parent = "NULL" \/ ~profiles.has
    THEN {NoExchange(MCINSTALL_E_INVALID_ARG, client.last_error, profiles.val)}
    ELSE
    LET dict == Label(plist_dict_set_item(plist_new_dict, "RequestType",
                                          plist_new_string("GetProfileList")), "req", <<>>)
        sent == [NoExchange(mcinstall_error(x.send), reset_last_error(client), profiles.val)
                   EXCEPT !.nsend = 1, !.req = dict, !.senderr = x.send,
                          !.freed = Released(dict)]
        received == [sent EXCEPT !.res = mcinstall_error(x.recv), !.nrecv = 1,
                                 !.recverr = x.recv]
    IN  IF sent.res # MCINSTALL_E_SUCCESS THEN {sent}
        ELSE IF received.res # MCINSTALL_E_SUCCESS THEN {received}
        ELSE IF IsNull(x.resp)
        THEN {[received EXCEPT !.res = MCINSTALL_E_UNKNOWN_ERROR]}
        ELSE {IF c.fault
              THEN [received EXCEPT !.fault = TRUE, !.resp = x.resp, !.left = c.resp,
                                    !.last_error = c.sc, !.out = c.out,
                                    !.freed = @ (+) c.freed]
              ELSE [received EXCEPT !.res = c.res, !.resp = x.resp,
                                    !.last_error = c.sc, !.out = c.out,
                                    !.freed = @ (+) c.freed (+) Released(c.resp),
                                    !.profiles = IF c.res = MCINSTALL_E_SUCCESS
                                                 THEN plist_copy(c.resp, "list") ELSE @]
              : c \in mcinstall_check_result(x.resp, received.last_error)}

(***************************************************************************)
(* plist_to_bin of a dict of strings and uints (mcinstall.c:241): the      *)
(* binary plist.  After the magic comes the dict object, its entry count   *)
(* followed by the references to its keys and then to its values; then     *)
(* every distinct key and value once, in order of first use, a uint in the *)
(* fewest of 1, 2, 4 or 8 bytes that hold it; then the trailer with the    *)
(* number of objects.                                                      *)
(***************************************************************************)
RECURSIVE Uniq(_, _)
Uniq(q, n) ==
    IF n = 0 THEN <<>>
    ELSE LET u == Uniq(q, n - 1)
         IN  IF \E j \in 1..Len(u) : u[j] = q[n] THEN u ELSE Append(u, q[n])

get_needed_bytes(v) ==
    LET lead == IF \A i \in 1..8 : v[i] = 0 THEN 7
                ELSE (CHOOSE i \in 1..8 : v[i] # 0 /\ \A j \in 1..(i - 1) : v[j] = 0) - 1
        size == 8 - lead
    IN  IF size <= 2 THEN size ELSE IF size <= 4 THEN 4 ELSE 8

WriteObject(x) ==
    IF x.t = "uint"
    THEN LET w == get_needed_bytes(x.n)
         IN  <<Tok("uint", "", w)>> \o [i \in 1..w |-> Byte(x.n[8 - w + i])]
    ELSE <<Tok("string", x.s, 0)>>

RECURSIVE WriteObjects(_, _)
WriteObjects(objs, n) ==
    IF n = 0 THEN <<>> ELSE WriteObjects(objs, n - 1) \o WriteObject(objs[n])

plist_to_bin(d) ==
    LET leaves == [i \in DOMAIN d.kids |-> Val(d.kids[i])]
        objs == Uniq(leaves, Len(leaves))
        count == Len(leaves) \div 2
        Ref(x) == CHOOSE j \in 1..Len(objs) : objs[j] = x
    IN  <<Tok("magic", "bplist00", 0), Tok("dict", "", count)>>
        \o [i \in 1..count |-> Tok("ref", "", Ref(leaves[2 * i - 1]))]
        \o [i \in 1..count |-> Tok("ref", "", Ref(leaves[2 * i]))]
        \o WriteObjects(objs, Len(objs))
        \o <<Tok("trailer", "", Len(objs) + 1)>>

(***************************************************************************)
(* mcinstall_remove (mcinstall.c:226-273).  A const char* argument is      *)
(* NullString when the pointer is NULL; payloadVersion is a uint64_t.      *)
(***************************************************************************)
NullString == "(NULL)"

Zero64 == U64(<<>>)

\* remove that lets version 0 pass
remove_refuses_any_version(client, payloadIdentifier, payloadUUID, payloadVersion) ==
    client.isnull \/ client.parent = "NULL" \/ payloadIdentifier = NullString
    \/ payloadUUID = NullString

\* mcinstall.c:228, the arguments remove refuses
remove_refuses(client, payloadIdentifier, payloadUUID, payloadVersion) ==
    client.isnull \/ client.parent = "NULL" \/ payloadIdentifier = NullString
    \/ payloadUUID = NullString \/ payloadVersion = Zero64

\* remove that takes the uuid for the identifier and the identifier for the uuid
remove_descriptor_swapped(payloadIdentifier, payloadUUID, payloadVersion) ==
    Label(PDict(<<"PayloadType", plist_new_string("Configuration"),
                  "PayloadIdentifier", plist_new_string(payloadUUID),
                  "PayloadUUID", plist_new_string(payloadIdentifier),
                  "PayloadVersion", plist_new_uint(payloadVersion)>>), "data", <<>>)

\* mcinstall.c:232-236, the descriptor of the profile to remove
remove_descriptor(payloadIdentifier, payloadUUID, payloadVersion) ==
    Label(plist_dict_set_item(
            plist_dict_set_item(
              plist_dict_set_item(
                plist_dict_set_item(plist_new_dict, "PayloadType",
                                    plist_new_string("Configuration")),
                "PayloadIdentifier", plist_new_string(payloadIdentifier)),
              "PayloadUUID", plist_new_string(payloadUUID)),
            "PayloadVersion", plist_new_uint(payloadVersion)), "data", <<>>)

\* mcinstall.c:245-247, the request remove builds around the binary descriptor
remove_request(bin) ==
    Label(plist_dict_set_item(
            plist_dict_set_item(plist_new_dict, "RequestType",
                                plist_new_string("RemoveProfile")),
            "ProfileIdentifier", plist_new_data(bin)), "req", <<>>)

\* a remove that goes on to the receive whatever the send reported
mcinstall_remove_unchecked_send(client, payloadIdentifier, payloadUUID, payloadVersion, x) ==
    IF remove_refuses(client, payloadIdentifier, payloadUUID, payloadVersion)
    THEN {NoExchange(MCINSTALL_E_INVALID_ARG, client.last_error, NullNode)}
    ELSE {[NoExchange(mcinstall_error(x.recv), reset_last_error(client), NullNode)
             EXCEPT !.nsend = 1, !.nrecv = 1, !.senderr = x.send, !.recverr = x.recv,
                    !.req = remove_request(plist_to_bin(
                               remove_descriptor(payloadIdentifier, payloadUUID,
                                                 payloadVersion)))]}

mcinstall_remove(client, payloadIdentifier, payloadUUID, payloadVersion, x) ==
    IF remove_refuses(client, payloadIdentifier, payloadUUID, payloadVersion)
    THEN {NoExchange(MCINSTALL_E_INVALID_ARG, client.last_error, NullNode)}
    ELSE
    LET data == remove_descriptor(payloadIdentifier, payloadUUID, payloadVersion)
        bin == plist_to_bin(data)
        dict == remove_request(bin)
        sent == [NoExchange(mcinstall_error(x.send), reset_last_error(client), NullNode)
                   EXCEPT !.nsend = 1, !.req = dict, !.senderr = x.send,
                          !.freed = Released(data) (+) Released(dict)]
        received == [sent EXCEPT !.res = mcinstall_error(x.recv), !.nrecv = 1,
                                 !.recverr = x.recv]
    IN  IF sent.res # MCINSTALL_E_SUCCESS THEN {sent}
        ELSE IF received.res # MCINSTALL_E_SUCCESS THEN {received}
        ELSE IF IsNull(x.resp)
        THEN {[received EXCEPT !.res = MCINSTALL_E_UNKNOWN_ERROR]}
        ELSE {IF c.fault
              THEN [received EXCEPT !.fault = TRUE, !.resp = x.resp, !.left = c.resp,
                                    !.last_error = c.sc, !.out = c.out,
                                    !.freed = @ (+) c.freed]
              ELSE [received EXCEPT !.res = c.res, !.resp = x.resp,
                                    !.last_error = c.sc, !.out = c.out,
                                    !.freed = @ (+) c.freed (+) Released(c.resp)]
              : c \in mcinstall_check_result(x.resp, received.last_error)}

(***************************************************************************)
(* mcinstall_client_free (mcinstall.c:136-149).  `dangling` says that the  *)
(* handle was passed to mcinstall_client_free before: the fields are then  *)
(* read from released memory, and the outcomes are those a build can       *)
(* produce.  A channel made by property_list_service_client_new always has *)
(* its own parent set, so client->parent->parent holds when parent does.   *)
(* chan and mem count the releases of the channel and of the client.       *)
(***************************************************************************)
Closed(res, chan, mem, fault) == [res |-> res, chan |-> chan, mem |-> mem, fault |-> fault]

\* a close that frees the client and forgets its channel
mcinstall_client_free_leaky(client, dangling) ==
    IF client.isnull THEN {Closed(MCINSTALL_E_INVALID_ARG, 0, 0, FALSE)}
    ELSE {Closed(MCINSTALL_E_SUCCESS, 0, 1, FALSE)}

mcinstall_client_free(client, dangling) ==
    IF client.isnull THEN {Closed(MCINSTALL_E_INVALID_ARG, 0, 0, FALSE)}
    ELSE IF dangling
    THEN {Closed(MCINSTALL_E_SUCCESS, 0, 1, FALSE), Closed(MCINSTALL_E_SUCCESS, 1, 1, FALSE),
          Closed(MCINSTALL_E_SUCCESS, 0, 0, TRUE)}
    ELSE {Closed(MCINSTALL_E_SUCCESS, IF client.parent # "NULL" THEN 1 ELSE 0, 1, FALSE)}

(***************************************************************************)
(* property_list_service_client_new, the channel constructor that          *)
(* mcinstall_client_new calls at mcinstall.c:116 (src/property_list_       *)
(* service.c is not among the sources at hand): it refuses a NULL device   *)
(* or service descriptor, and otherwise builds the channel or reports that *)
(* the connection failed; `made` is which of the two happens.  Its own     *)
(* output pointer is &plistclient, which is never NULL.                    *)
(***************************************************************************)
ChannelResults == {"PLS_E_SUCCESS", "PLS_E_MUX_ERROR"}

property_list_service_client_new(device, service, made) ==
    IF device = "NULL" \/ service = "NULL" THEN "PLS_E_INVALID_ARG" ELSE made

(***************************************************************************)
(* mcinstall_client_new (mcinstall.c:113-127).  `client` says whether the  *)
(* caller's output pointer is non-NULL.  The answer is the result, the     *)
(* client allocated (NullClient when none is), whether the channel was     *)
(* built, whether the caller's handle was written, and whether the         *)
(* process was stopped: the pointer is written through at line 125 without *)
(* a test, so a NULL one is a write to address 0.                          *)
(***************************************************************************)
Made(res, made, built, stored, fault) ==
    [res |-> res, client |-> made, built |-> built, stored |-> stored, fault |-> fault]

mcinstall_client_new(device, service, client, made) ==
    LET err == mcinstall_error(property_list_service_client_new(device, service, made))
    IN  IF err # MCINSTALL_E_SUCCESS THEN Made(err, NullClient, FALSE, FALSE, FALSE)
        ELSE IF ~client
        THEN Made(MCINSTALL_E_UNKNOWN_ERROR, LiveClient("chan", STATUS_INITIAL),
                  TRUE, FALSE, TRUE)
        ELSE Made(MCINSTALL_E_SUCCESS, LiveClient("chan", STATUS_INITIAL), TRUE, TRUE, FALSE)

(***************************************************************************)
(* mcinstall_get_status_code (mcinstall.c:275-281).                        *)
(***************************************************************************)
\* a query that reads the field without looking at the handle
mcinstall_get_status_code_unguarded(client) == client.last_error

mcinstall_get_status_code(client) ==
    IF client.isnull THEN STATUS_NO_CLIENT ELSE client.last_error

(***************************************************************************)
(* The state: one caller with one client handle.                           *)
(*   handle    "none" before the client is made, "live", then "freed"      *)
(*   client    the fields of the client the handle points to               *)
(*   chanFrees, memFrees  how often the channel and the client were freed  *)
(*   profiles  the caller's variable that receives the listing             *)
(*   last      the most recent call of new, free, install, list or remove: *)
(*             its arguments, the state before it and what it did          *)
(*   status    the most recent answer of mcinstall_get_status_code since   *)
(*             that call                                                   *)
(*   crashed   the process was stopped                                     *)
(*   wire      the channel of the client as a FIFO: the answers of the      *)
(*             device that are in flight, and who asked for them            *)
(*   cli       the run of the command line tool (tools/ideviceprofile.c)    *)
(***************************************************************************)
VARIABLES handle, client, chanFrees, memFrees, profiles, last, status, crashed, wire, cli

vars == <<handle, client, chanFrees, memFrees, profiles, last, status, crashed, wire, cli>>

NoStatus == [asked |-> FALSE, cnull |-> FALSE, val |-> 0, times |-> 0]

Call(op, cnull, o) ==
    [op |-> op, cnull |-> cnull, profile |-> NullNode, hasout |-> FALSE,
     ident |-> NullString, uuid |-> NullString, version |-> Zero64,
     device |-> "NULL", service |-> "NULL", made |-> "none",
     handle |-> handle, connected |-> client.parent # "NULL",
     pre_error |-> client.last_error, pre_profiles |-> profiles, o |-> o]

\* the state before the caller has made any call
NothingCalled ==
    /\ handle = "none"
    /\ client = NullClient
    /\ chanFrees = 0
    /\ memFrees = 0
    /\ profiles = NullNode
    /\ last = [op |-> "none", cnull |-> TRUE, profile |-> NullNode, hasout |-> FALSE,
               ident |-> NullString, uuid |-> NullString, version |-> Zero64,
               device |-> "NULL", service |-> "NULL", made |-> "none",
               handle |-> "none", connected |-> FALSE, pre_error |-> 0,
               pre_profiles |-> NullNode,
               o |-> NoExchange(MCINSTALL_E_SUCCESS, 0, NullNode)]
    /\ status = NoStatus
    /\ crashed = FALSE

\* no answer in flight, no request sent
WireIdle == [queue |-> <<>>, sent |-> 0, own |-> 0, got |-> 0]

\* the command line tool is not running
CliIdle == [pc |-> "off"]

Init ==
    /\ NothingCalled
    /\ wire = WireIdle
    /\ cli = CliIdle

\* the client argument of a call: NULL, or the caller's live handle
Passed(cnull) == IF cnull THEN NullClient ELSE client

CanPass(cnull) == cnull \/ handle = "live"

\* the inputs of the calls.  A call that is refused before any exchange is
\* tried once, every valid argument is tried with an acknowledged exchange
\* and a few failing ones, and one valid argument with every exchange.
Acknowledged == CHOOSE x \in Exchanges : Val(x.resp) = StatusOnly("Acknowledged")

BasicExchanges ==
    {x \in Exchanges : \/ x.send = "PLS_E_MUX_ERROR"
                       \/ x.recv = "PLS_E_RECEIVE_TIMEOUT"
                       \/ Val(x.resp) \in {StatusOnly("Acknowledged"), StatusOnly("Error")}}

Versions == {Zero64, U64(<<1>>), U64(<<1, 0>>), U64(<<1, 0, 0>>), U64(<<255, 255, 255, 255>>),
             U64(<<1, 0, 0, 0, 0>>), U64(<<255, 255, 255, 255, 255, 255, 255, 255>>)}

Identifiers == {NullString, "", "p1"}

UUIDs == {NullString, "u1", "p1"}

InstallInputs ==
    LET refused == {p \in ProfileArgs : IsNull(p) \/ p.t # "data"}
        one == Label(plist_new_data(<<Byte(MaxByte), Byte(0)>>), "arg", <<>>)
    IN  {[cnull |-> TRUE, profile |-> one, x |-> Acknowledged]}
        \cup {[cnull |-> FALSE, profile |-> p, x |-> Acknowledged] : p \in refused}
        \cup {[cnull |-> FALSE, profile |-> p, x |-> x]
               : p \in ProfileArgs \ refused, x \in BasicExchanges}
        \cup {[cnull |-> FALSE, profile |-> one, x |-> x] : x \in Exchanges}

ListInputs ==
    {[cnull |-> TRUE, hasout |-> TRUE, x |-> Acknowledged],
     [cnull |-> FALSE, hasout |-> FALSE, x |-> Acknowledged]}
    \cup {[cnull |-> FALSE, hasout |-> TRUE, x |-> x] : x \in Exchanges}

RemoveInputs ==
    LET all == {[cnull |-> FALSE, ident |-> i, uuid |-> u, version |-> v, x |-> Acknowledged]
                : i \in Identifiers, u \in UUIDs, v \in Versions}
        one == [cnull |-> FALSE, ident |-> "p1", uuid |-> "u1", version |-> U64(<<1>>),
                x |-> Acknowledged]
    IN  {[one EXCEPT !.cnull = TRUE]} \cup all \cup {[one EXCEPT !.x = x] : x \in Exchanges}

\* the arguments of mcinstall_client_new: a device, a service descriptor and
\* the pointer to the caller's handle, each of which may be NULL
NewInputs ==
    {[device |-> d, service |-> s, hasout |-> h, made |-> m]
        : d \in {"NULL", "dev"}, s \in {"NULL", "svc"}, h \in BOOLEAN, m \in ChannelResults}

ClientNew ==
    /\ ~crashed /\ handle = "none"
    /\ \E in \in NewInputs :
         LET r == mcinstall_client_new(in.device, in.service, in.hasout, in.made)
         IN  /\ last' = [Call("new", FALSE, NoExchange(r.res, r.client.last_error, NullNode))
                           EXCEPT !.device = in.device, !.service = in.service,
                                  !.hasout = in.hasout, !.made = in.made]
             /\ IF r.stored
                THEN handle' = "live" /\ client' = r.client
                ELSE UNCHANGED <<handle, client>>
             /\ crashed' = r.fault
    /\ status' = NoStatus
    /\ UNCHANGED <<chanFrees, memFrees, profiles, wire, cli>>

Install ==
    /\ ~crashed
    /\ \E in \in InstallInputs :
         /\ CanPass(in.cnull)
         /\ \E o \in mcinstall_install(Passed(in.cnull), in.profile, in.x) :
              /\ last' = [Call("install", in.cnull, o) EXCEPT !.profile = in.profile]
              /\ client' = IF in.cnull THEN client
                           ELSE [client EXCEPT !.last_error = o.last_error]
              /\ crashed' = o.fault
    /\ status' = NoStatus
    /\ UNCHANGED <<handle, chanFrees, memFrees, profiles, wire, cli>>

GetProfileList ==
    /\ ~crashed
    /\ \E in \in ListInputs :
         /\ CanPass(in.cnull)
         /\ \E o \in mcinstall_get_profile_list(Passed(in.cnull),
                                                [has |-> in.hasout, val |-> profiles], in.x) :
              /\ last' = [Call("list", in.cnull, o) EXCEPT !.hasout = in.hasout]
              /\ client' = IF in.cnull THEN client
                           ELSE [client EXCEPT !.last_error = o.last_error]
              /\ profiles' = o.profiles
              /\ crashed' = o.fault
    /\ status' = NoStatus
    /\ UNCHANGED <<handle, chanFrees, memFrees, wire, cli>>

Remove ==
    /\ ~crashed
    /\ \E in \in RemoveInputs :
         /\ CanPass(in.cnull)
         /\ \E o \in mcinstall_remove(Passed(in.cnull), in.ident, in.uuid, in.version, in.x) :
              /\ last' = [Call("remove", in.cnull, o) EXCEPT !.ident = in.ident,
                                                             !.uuid = in.uuid,
                                                             !.version = in.version]
              /\ client' = IF in.cnull THEN client
                           ELSE [client EXCEPT !.last_error = o.last_error]
              /\ crashed' = o.fault
    /\ status' = NoStatus
    /\ UNCHANGED <<handle, chanFrees, memFrees, profiles, wire, cli>>

GetStatusCode ==
    /\ ~crashed
    /\ \E cnull \in BOOLEAN :
         /\ CanPass(cnull)
         /\ status' = [asked |-> TRUE, cnull |-> cnull,
                       val |-> mcinstall_get_status_code(Passed(cnull)),
                       times |-> IF status.asked /\ status.cnull = cnull THEN 2 ELSE 1]
    /\ UNCHANGED <<handle, client, chanFrees, memFrees, profiles, last, crashed, wire, cli>>

ClientFree ==
    /\ ~crashed
    /\ \E cnull \in BOOLEAN :
         /\ cnull \/ handle = "live" \/ (handle = "freed" /\ memFrees < MaxCloses)
         /\ \E c \in mcinstall_client_free(Passed(cnull), ~cnull /\ handle = "freed") :
              /\ last' = Call("free", cnull, NoExchange(c.res, client.last_error, NullNode))
              /\ chanFrees' = chanFrees + c.chan
              /\ memFrees' = memFrees + c.mem
              /\ crashed' = c.fault
              /\ IF cnull THEN UNCHANGED <<handle, client>>
                 ELSE handle' = "freed" /\ client' = [client EXCEPT !.parent = "NULL"]
    /\ status' = NoStatus
    /\ UNCHANGED <<profiles, wire, cli>>

Next ==
    \/ ClientNew
    \/ Install
    \/ GetProfileList
    \/ Remove
    \/ GetStatusCode
    \/ ClientFree

Spec == Init /\ [][Next]_vars

(***************************************************************************)
(* One client over its channel taken as a FIFO.  A request that the send   *)
(* delivered is answered by the device exactly once; the answers wait in   *)
(* wire.queue, oldest first, each with the number of the request it        *)
(* answers.  A receive that succeeds hands back the oldest answer; one     *)
(* that times out hands back nothing and leaves the answers where they     *)
(* are.  wire.own is the number of the request of the last call and        *)
(* wire.got the number of the request whose answer it received.            *)
(***************************************************************************)
WireAnswers ==
    {Label(r, "resp", <<>>) :
        r \in {StatusOnly("Acknowledged"), StatusOnly("Error"),
               PDict(<<"OrderedIdentifiers", plist_new_array(<<>>),
                       "ProfileMetadata", PDict(<<>>),
                       "Status", plist_new_string("Acknowledged")>>)}}

\* what the transport and the device do with one request
WireInputs ==
    {[send |-> sd, recv |-> rc, answer |-> a]
        : sd \in {"PLS_E_SUCCESS", "PLS_E_MUX_ERROR"},
          rc \in {"PLS_E_SUCCESS", "PLS_E_RECEIVE_TIMEOUT"}, a \in WireAnswers}

\* the answers in flight once the request was sent
Delivered(in) ==
    IF in.send = "PLS_E_SUCCESS"
    THEN Append(wire.queue, [tag |-> wire.sent + 1, resp |-> in.answer])
    ELSE wire.queue

\* the exchange as the call sees it: a receive that succeeds yields the
\* oldest answer in flight
WireExchange(in) ==
    [send |-> in.send, recv |-> in.recv,
     resp |-> IF in.send = "PLS_E_SUCCESS" /\ in.recv = "PLS_E_SUCCESS"
              THEN Head(Delivered(in)).resp ELSE NullNode]

\* the channel after a call with outcome o
WireAfter(in, o) ==
    LET q == IF o.nsend = 1 THEN Delivered(in) ELSE wire.queue
        delivered == o.nsend = 1 /\ o.senderr = "PLS_E_SUCCESS"
        received == o.nrecv = 1 /\ o.recverr = "PLS_E_SUCCESS"
    IN  [queue |-> IF received THEN Tail(q) ELSE q,
         sent |-> IF delivered THEN wire.sent + 1 ELSE wire.sent,
         own |-> IF delivered THEN wire.sent + 1 ELSE 0,
         got |-> IF received THEN Head(q).tag ELSE 0]

WireProfile == Label(plist_new_data(<<Byte(MaxByte), Byte(0)>>), "arg", <<>>)

WireInstall ==
    /\ ~crashed /\ handle = "live" /\ wire.sent < MaxRequests
    /\ \E in \in WireInputs :
         \E o \in mcinstall_install(client, WireProfile, WireExchange(in)) :
              /\ last' = [Call("install", FALSE, o) EXCEPT !.profile = WireProfile]
              /\ client' = [client EXCEPT !.last_error = o.last_error]
              /\ crashed' = o.fault
              /\ wire' = WireAfter(in, o)
    /\ status' = NoStatus
    /\ UNCHANGED <<handle, chanFrees, memFrees, profiles, cli>>

WireGetProfileList ==
    /\ ~crashed /\ handle = "live" /\ wire.sent < MaxRequests
    /\ \E in \in WireInputs :
         \E o \in mcinstall_get_profile_list(client, [has |-> TRUE, val |-> profiles],
                                              WireExchange(in)) :
              /\ last' = [Call("list", FALSE, o) EXCEPT !.hasout = TRUE]
              /\ client' = [client EXCEPT !.last_error = o.last_error]
              /\ profiles' = o.profiles
              /\ crashed' = o.fault
              /\ wire' = WireAfter(in, o)
    /\ status' = NoStatus
    /\ UNCHANGED <<handle, chanFrees, memFrees, cli>>

WireRemove ==
    /\ ~crashed /\ handle = "live" /\ wire.sent < MaxRequests
    /\ \E in \in WireInputs :
         \E o \in mcinstall_remove(client, "p1", "u1", U64(<<1>>), WireExchange(in)) :
              /\ last' = [Call("remove", FALSE, o) EXCEPT !.ident = "p1", !.uuid = "u1",
                                                          !.version = U64(<<1>>)]
              /\ client' = [client EXCEPT !.last_error = o.last_error]
              /\ crashed' = o.fault
              /\ wire' = WireAfter(in, o)
    /\ status' = NoStatus
    /\ UNCHANGED <<handle, chanFrees, memFrees, profiles, cli>>

NextWire ==
    \/ ClientNew
    \/ WireInstall
    \/ WireGetProfileList
    \/ WireRemove

SpecWire == Init /\ [][NextWire]_vars

(***************************************************************************)
(* The command line tool, main of tools/ideviceprofile.c from line 253 on  *)
(* (the device was found and the service started).  cli holds              *)
(*   pc       where main is: "start", "install", "list", "loop",           *)
(*            "cleanup", "close", "exit"; "aborted" when the process was   *)
(*            stopped                                                      *)
(*   op, param  the command and its argument                               *)
(*   res      the variable res, and exit the value main returned           *)
(*   answer   what the device answered to the listing request              *)
(*   oi, pm   ordered_identifiers and profile_metadata, borrowed from      *)
(*            profiles; j the loop index                                   *)
(*   visited  one record per pass of the loop                              *)
(*   calls    the calls made on the client, in order                       *)
(*   out      the lines printed                                            *)
(*   freed    the nodes released by the plist_free calls of main           *)
(***************************************************************************)
OP_INSTALL == "install"

OP_LIST == "list"

OP_REMOVE == "remove"

OP_REMOVE_ALL == "remove-all"

CliCommands ==
    {[op |-> OP_INSTALL, param |-> "file"], [op |-> OP_LIST, param |-> NullString],
     [op |-> OP_REMOVE, param |-> "p1"], [op |-> OP_REMOVE, param |-> "zz"],
     [op |-> OP_REMOVE_ALL, param |-> NullString]}

CliStart ==
    [pc |-> "start", op |-> "none", param |-> NullString, res |-> 0, exit |-> 0,
     answer |-> NullNode, oi |-> NullNode, pm |-> NullNode, j |-> 0,
     visited |-> <<>>, calls |-> <<>>, out |-> <<>>, freed |-> EmptyBag]

\* a call on the client as main makes it
CliCall(op, ident, uuid, version, res) ==
    [op |-> op, ident |-> ident, uuid |-> uuid, version |-> version, res |-> res]

\* a line of output
CliLine(what, a, b, c, sc) == [what |-> what, a |-> a, b |-> b, c |-> c, sc |-> sc]

\* the listings the device can answer with: two profiles; one profile with
\* the Status entry first; entries without metadata or with metadata of
\* another type; an identifier that is no string, with and without
\* metadata next to it; no profile; and an answer without the two fields
CliListings ==
    { PDict(<<"OrderedIdentifiers",
                 plist_new_array(<<plist_new_string("p1"), plist_new_string("p2")>>),
              "ProfileMetadata", PDict(<<"p1", Metadata("n1", "u1", U64(<<1>>)),
                                         "p2", Metadata("n2", "u2", U64(<<2>>))>>),
              "Status", plist_new_string("Acknowledged")>>),
      PDict(<<"Status", plist_new_string("Acknowledged"),
              "OrderedIdentifiers", plist_new_array(<<plist_new_string("p1")>>),
              "ProfileMetadata", PDict(<<"p1", Metadata("n1", "u1", U64(<<1>>))>>)>>),
      PDict(<<"OrderedIdentifiers",
                 plist_new_array(<<plist_new_string("p2"), plist_new_string("p1"),
                                   plist_new_string("p3")>>),
              "ProfileMetadata",
                 PDict(<<"p1", PDict(<<"PayloadUUID", plist_new_uint(U64(<<1>>)),
                                       "PayloadVersion", plist_new_string("1")>>),
                         "p2", plist_new_string("n2")>>),
              "Status", plist_new_string("Acknowledged")>>),
      PDict(<<"OrderedIdentifiers",
                 plist_new_array(<<plist_new_uint(U64(<<7>>)), plist_new_string("p1")>>),
              "ProfileMetadata", PDict(<<"p1", Metadata("n1", "u1", U64(<<1>>))>>),
              "Status", plist_new_string("Acknowledged")>>),
      PDict(<<"OrderedIdentifiers", plist_new_array(<<plist_new_uint(U64(<<7>>))>>),
              "ProfileMetadata", PDict(<<>>),
              "Status", plist_new_string("Acknowledged")>>),
      PDict(<<"OrderedIdentifiers", plist_new_array(<<>>),
              "ProfileMetadata", PDict(<<>>),
              "Status", plist_new_string("Acknowledged")>>),
      StatusOnly("Acknowledged") }

\* the exchanges of the listing request
CliListExchanges ==
    {[send |-> "PLS_E_SUCCESS", recv |-> "PLS_E_SUCCESS", resp |-> Label(r, "resp", <<>>)]
        : r \in CliListings \cup {StatusOnly("Error")}}
    \cup {[send |-> "PLS_E_MUX_ERROR", recv |-> "PLS_E_SUCCESS", resp |-> NullNode],
          [send |-> "PLS_E_SUCCESS", recv |-> "PLS_E_RECEIVE_TIMEOUT", resp |-> NullNode]}

\* the exchanges of an install or remove request
CliExchanges ==
    {[send |-> "PLS_E_SUCCESS", recv |-> "PLS_E_SUCCESS", resp |-> Label(r, "resp", <<>>)]
        : r \in {StatusOnly("Acknowledged"), StatusOnly("Error")}}
    \cup {[send |-> "PLS_E_SUCCESS", recv |-> "PLS_E_RECEIVE_TIMEOUT", resp |-> NullNode]}

\* profile_read_from_file (ideviceprofile.c:85-129): the file cannot be
\* read, or its bytes
CliFiles == {[ok |-> FALSE, bytes |-> <<>>], [ok |-> TRUE, bytes |-> <<>>],
             [ok |-> TRUE, bytes |-> <<Byte(MaxByte), Byte(0)>>]}

InitCLI ==
    /\ NothingCalled
    /\ wire = WireIdle
    /\ cli = CliStart

\* ideviceprofile.c:253-266: the command is known, the client is made
CliConnect ==
    /\ cli.pc = "start" /\ ~crashed
    /\ \E cmd \in CliCommands, made \in ChannelResults :
         LET r == mcinstall_client_new("dev", "svc", TRUE, made)
             call == CliCall("new", NullString, NullString, Zero64, r.res)
         IN  /\ last' = [Call("new", FALSE, NoExchange(r.res, r.client.last_error, NullNode))
                           EXCEPT !.device = "dev", !.service = "svc", !.hasout = TRUE,
                                  !.made = made]
             /\ IF r.res # MCINSTALL_E_SUCCESS
                THEN /\ cli' = [cli EXCEPT !.pc = "exit", !.op = cmd.op, !.param = cmd.param,
                                           !.exit = -1, !.calls = Append(@, call),
                                           !.out = Append(@, CliLine("Could not connect",
                                                     NullString, NullString, NullString, 0))]
                     /\ UNCHANGED <<handle, client>>
                ELSE /\ cli' = [cli EXCEPT !.pc = IF cmd.op = OP_INSTALL THEN "install"
                                                  ELSE "list",
                                           !.op = cmd.op, !.param = cmd.param,
                                           !.calls = Append(@, call)]
                     /\ handle' = "live" /\ client' = r.client
             /\ crashed' = r.fault
    /\ status' = NoStatus
    /\ UNCHANGED <<chanFrees, memFrees, profiles, wire>>

\* ideviceprofile.c:267-286: case OP_INSTALL
CliInstall ==
    /\ cli.pc = "install" /\ ~crashed
    /\ \E file \in CliFiles, x \in CliExchanges :
         IF ~file.ok
         THEN /\ cli' = [cli EXCEPT !.pc = "close",
                                    !.out = Append(@, CliLine("Could not read", cli.param,
                                                              NullString, NullString, 0))]
              /\ UNCHANGED <<client, last, status, crashed>>
         ELSE LET pdata == Label(plist_new_data(file.bytes), "arg", <<>>)
              IN  \E o \in mcinstall_install(client, pdata, x) :
                    LET sc == mcinstall_get_status_code([client EXCEPT !.last_error =
                                                                         o.last_error])
                        did == CliCall("install", NullString, NullString, Zero64, o.res)
                        asked == CliCall("status", NullString, NullString, Zero64, sc)
                        ok == o.res = MCINSTALL_E_SUCCESS
                    IN  /\ last' = [Call("install", FALSE, o) EXCEPT !.profile = pdata]
                        /\ client' = [client EXCEPT !.last_error = o.last_error]
                        /\ crashed' = o.fault
                        /\ status' = IF ok \/ o.fault THEN NoStatus
                                     ELSE [asked |-> TRUE, cnull |-> FALSE, val |-> sc,
                                           times |-> 1]
                        /\ cli' = [cli EXCEPT
                              !.pc = IF o.fault THEN "aborted" ELSE "close",
                              !.calls = IF ok \/ o.fault THEN Append(@, did)
                                        ELSE @ \o <<did, asked>>,
                              !.out = IF o.fault THEN @
                                      ELSE IF ok
                                      THEN Append(@, CliLine("installed", cli.param,
                                                             NullString, NullString, 0))
                                      ELSE Append(@, CliLine("Could not install", cli.param,
                                                             NullString, NullString, sc))]
    /\ UNCHANGED <<handle, chanFrees, memFrees, profiles, wire>>

\* ideviceprofile.c:291-303 and 360-368: the listing is asked for, and its
\* two fields are looked up
CliList ==
    /\ cli.pc = "list" /\ ~crashed
    /\ \E x \in CliListExchanges :
        \E o \in mcinstall_get_profile_list(client, [has |-> TRUE, val |-> profiles], x) :
         LET sc == mcinstall_get_status_code([client EXCEPT !.last_error = o.last_error])
             did == CliCall("list", NullString, NullString, Zero64, o.res)
             asked == CliCall("status", NullString, NullString, Zero64, sc)
         IN  /\ last' = [Call("list", FALSE, o) EXCEPT !.hasout = TRUE]
             /\ client' = [client EXCEPT !.last_error = o.last_error]
             /\ profiles' = o.profiles
             /\ IF o.fault
                THEN /\ crashed' = TRUE /\ status' = NoStatus
                     /\ cli' = [cli EXCEPT !.pc = "aborted", !.calls = Append(@, did),
                                           !.answer = x.resp]
                ELSE IF o.res # MCINSTALL_E_SUCCESS
                THEN /\ crashed' = FALSE
                     /\ status' = [asked |-> TRUE, cnull |-> FALSE, val |-> sc, times |-> 1]
                     /\ cli' = [cli EXCEPT !.pc = "cleanup", !.res = -1,
                                           !.answer = x.resp,
                                           !.calls = @ \o <<did, asked>>,
                                           !.out = Append(@, CliLine("Could not get",
                                                     NullString, NullString, NullString, sc))]
                ELSE \E ordered_identifiers \in
                            plist_dict_get_item(o.profiles, "OrderedIdentifiers"),
                        profile_metadata \in
                            plist_dict_get_item(o.profiles, "ProfileMetadata") :
                     /\ status' = NoStatus
                     /\ IF ordered_identifiers.t = "fault" \/ profile_metadata.t = "fault"
                        THEN /\ crashed' = TRUE
                             /\ cli' = [cli EXCEPT !.pc = "aborted",
                                                   !.calls = Append(@, did),
                                                   !.answer = x.resp]
                        ELSE /\ crashed' = FALSE
                             /\ IF ordered_identifiers.t = "array"
                                   /\ profile_metadata.t = "dict"
                                THEN LET num_profiles == Len(ordered_identifiers.kids)
                                     IN cli' = [cli EXCEPT
                                          !.pc = IF num_profiles = 0 THEN "cleanup"
                                                 ELSE "loop",
                                          !.answer = x.resp,
                                          !.oi = ordered_identifiers,
                                          !.pm = profile_metadata, !.j = 0,
                                          !.calls = Append(@, did),
                                          !.out = IF cli.op = OP_LIST
                                                  THEN Append(@, CliLine("Device has",
                                                         NullString, NullString, NullString,
                                                         num_profiles))
                                                  ELSE @]
                                ELSE cli' = [cli EXCEPT !.pc = "cleanup", !.res = -1,
                                               !.answer = x.resp,
                                               !.calls = Append(@, did),
                                               !.out = Append(@, CliLine("Malformed output",
                                                         NullString, NullString, NullString,
                                                         0))]
    /\ UNCHANGED <<handle, chanFrees, memFrees, wire>>

\* the char* that plist_get_string_val hands back for a string node; NULL
\* (the initial value of the variable) for any other node
StringOr(node) == IF node.t = "string" THEN node.s ELSE NullString

\* ideviceprofile.c:306-330: what one pass of the loop reads from the
\* listing.  With p_iden NULL the lookup in profile_metadata compares a NULL
\* key with the first key of the dict, if it has one.
CliEntry(ordered_identifiers, profile_metadata, j) ==
    LET pl == ordered_identifiers.kids[j + 1]
        p_iden == StringOr(pl)
        found == IF p_iden # NullString THEN plist_dict_get_item(profile_metadata, p_iden)
                 ELSE IF profile_metadata.kids = <<>> THEN {NullNode} ELSE {FaultNode}
        Read(fault, name, uuid, vers) ==
            [fault |-> fault, p_iden |-> p_iden, p_name |-> name, p_uuid |-> uuid,
             p_vers |-> vers]
    IN  UNION {IF profile.t = "fault" THEN {Read(TRUE, NullString, NullString, Zero64)}
               ELSE IF plist_get_node_type(profile) # "dict"
               THEN {Read(FALSE, NullString, NullString, Zero64)}
               ELSE {Read(name.t = "fault" \/ uuid.t = "fault" \/ vers.t = "fault",
                          StringOr(name), StringOr(uuid),
                          IF vers.t = "uint" THEN vers.n ELSE Zero64)
                     : name \in plist_dict_get_item(profile, "PayloadDisplayName"),
                       uuid \in plist_dict_get_item(profile, "PayloadUUID"),
                       vers \in plist_dict_get_item(profile, "PayloadVersion")}
               : profile \in found}

\* ideviceprofile.c:334-346: whether this pass of the loop calls remove
CliRemoves(op, param, p_iden) ==
    \/ op = OP_REMOVE /\ param # NullString /\ p_iden = param
    \/ op = OP_REMOVE_ALL

\* ideviceprofile.c:305-356: one pass of the loop over OrderedIdentifiers
CliLoop ==
    /\ cli.pc = "loop" /\ ~crashed
    /\ \E e \in CliEntry(cli.oi, cli.pm, cli.j), x \in CliExchanges :
         LET seen == [j |-> cli.j, iden |-> e.p_iden, uuid |-> e.p_uuid,
                      name |-> e.p_name, vers |-> e.p_vers]
             next == IF cli.j + 1 < Len(cli.oi.kids) THEN "loop" ELSE "cleanup"
         IN  IF e.fault \/ (cli.op = OP_REMOVE /\ cli.param # NullString
                            /\ e.p_iden = NullString)
             THEN /\ crashed' = TRUE
                  /\ cli' = [cli EXCEPT !.pc = "aborted"]
                  /\ UNCHANGED <<client, last, status>>
             ELSE IF ~CliRemoves(cli.op, cli.param, e.p_iden)
             THEN /\ cli' = [cli EXCEPT
                        !.pc = next, !.j = @ + 1, !.visited = Append(@, seen),
                        !.out = IF cli.op = OP_LIST
                                THEN Append(@, CliLine("entry",
                                       IF e.p_iden # NullString THEN e.p_iden
                                       ELSE "(unknown identifier)",
                                       IF e.p_uuid # NullString THEN e.p_uuid
                                       ELSE "(unknown id)",
                                       IF e.p_name # NullString THEN e.p_name
                                       ELSE "(no name)", 0))
                                ELSE @]
                  /\ UNCHANGED <<client, last, status, crashed>>
             ELSE \E o \in mcinstall_remove(client, e.p_iden, e.p_uuid, e.p_vers, x) :
                    LET sc == mcinstall_get_status_code([client EXCEPT !.last_error =
                                                                         o.last_error])
                        did == CliCall("remove", e.p_iden, e.p_uuid, e.p_vers, o.res)
                        asked == CliCall("status", NullString, NullString, Zero64, sc)
                        ok == o.res = MCINSTALL_E_SUCCESS
                    IN  /\ last' = [Call("remove", FALSE, o) EXCEPT !.ident = e.p_iden,
                                                                    !.uuid = e.p_uuid,
                                                                    !.version = e.p_vers]
                        /\ client' = [client EXCEPT !.last_error = o.last_error]
                        /\ crashed' = o.fault
                        /\ status' = IF ok \/ o.fault THEN NoStatus
                                     ELSE [asked |-> TRUE, cnull |-> FALSE, val |-> sc,
                                           times |-> 1]
                        /\ cli' = [cli EXCEPT
                              !.pc = IF o.fault THEN "aborted" ELSE next,
                              !.j = @ + 1, !.visited = Append(@, seen),
                              !.calls = IF ok \/ o.fault THEN Append(@, did)
                                        ELSE @ \o <<did, asked>>,
                              !.out = IF o.fault THEN @
                                      ELSE IF ok
                                      THEN Append(@, CliLine("removed", e.p_iden,
                                                             NullString, NullString, 0))
                                      ELSE Append(@, CliLine("Could not remove", e.p_iden,
                                                             NullString, NullString, sc))]
    /\ UNCHANGED <<handle, chanFrees, memFrees, profiles, wire>>

\* ideviceprofile.c:357-358 and 369: the two borrowed fields are released,
\* then the listing
CliCleanup ==
    /\ cli.pc = "cleanup" /\ ~crashed
    /\ cli' = [cli EXCEPT
          !.pc = "close",
          !.freed = IF IsNull(cli.oi) THEN Released(profiles)
                    ELSE Released(cli.pm) (+) Released(cli.oi)
                         (+) Released(Detach(Detach(profiles, cli.pm.id), cli.oi.id))]
    /\ profiles' = NullNode
    /\ UNCHANGED <<handle, client, chanFrees, memFrees, last, status, crashed, wire>>

\* ideviceprofile.c:376-380: the client is closed and main returns res
CliClose ==
    /\ cli.pc = "close" /\ ~crashed
    /\ \E c \in mcinstall_client_free(client, FALSE) :
         /\ last' = Call("free", FALSE, NoExchange(c.res, client.last_error, NullNode))
         /\ chanFrees' = chanFrees + c.chan
         /\ memFrees' = memFrees + c.mem
         /\ crashed' = c.fault
         /\ handle' = "freed" /\ client' = [client EXCEPT !.parent = "NULL"]
         /\ cli' = [cli EXCEPT !.pc = "exit", !.exit = cli.res,
                               !.calls = Append(@, CliCall("free", NullString, NullString,
                                                           Zero64, c.res))]
    /\ status' = NoStatus
    /\ UNCHANGED <<profiles, wire>>

NextCLI ==
    \/ CliConnect
    \/ CliInstall
    \/ CliList
    \/ CliLoop
    \/ CliCleanup
    \/ CliClose

SpecCLI == InitCLI /\ [][NextCLI]_vars

(***************************************************************************)
(* Vocabulary of the properties.                                           *)
(***************************************************************************)
IsOperation == last.op \in {"install", "list", "remove"}

\* the call made its receive, which reported success
Received == IsOperation /\ last.o.nrecv = 1 /\ last.o.recverr = "PLS_E_SUCCESS"

\* the call went through a full round trip: an answer existed
RoundTrip == Received /\ ~IsNull(last.o.resp)

\* the entry of a well-formed dict under a key, NullNode when it has none
FieldOf(d, k) ==
    IF d.t = "dict" /\ \E i \in 1..(Len(d.kids) \div 2) : d.kids[2 * i - 1].s = k
    THEN d.kids[2 * (CHOOSE i \in 1..(Len(d.kids) \div 2) : d.kids[2 * i - 1].s = k)]
    ELSE NullNode

HasStringStatus(r) == r.t = "dict" /\ FieldOf(r, "Status").t = "string"

\* how often an identity was released during the last call
TimesReleased(id) == IF id \in BagToSet(last.o.freed) THEN CopiesIn(id, last.o.freed) ELSE 0

(***************************************************************************)
(* C1: after an operation that completed a full round trip, lastStatusCode *)
(* reports the outcome of the classification: the success value when it    *)
(* succeeded, the sentinel of the failure kind (ProtocolError or           *)
(* RequestFailed) when it failed; it reports "unknown" only when the send  *)
(* or the receive failed before any answer existed.                        *)
(***************************************************************************)
C1_StatusCodeReflectsOutcome ==
    (status.asked /\ ~status.cnull /\ IsOperation /\ ~last.cnull) =>
        /\ (RoundTrip /\ ~last.o.fault) => status.val = last.o.res
        /\ status.val = MCINSTALL_E_UNKNOWN_ERROR =>
               (last.o.nsend = 1 /\ IsNull(last.o.resp)
                /\ last.o.res # MCINSTALL_E_SUCCESS)

Malformed(r) == ~IsNull(r) /\ ~HasStringStatus(r)

C3_MalformedAnswerIsAnError ==
    /\ (Received /\ IsNull(last.o.resp)) =>
            (~last.o.fault /\ last.o.res = MCINSTALL_E_UNKNOWN_ERROR)
    /\ (RoundTrip /\ Malformed(last.o.resp)) =>
            /\ ~last.o.fault
            /\ last.o.res = MCINSTALL_E_PLIST_ERROR
            /\ IsNull(last.o.left)
            /\ \A id \in Ids(last.o.resp) : TimesReleased(id) = 1

C3_Witness ==
    /\ last.op = "install" /\ RoundTrip
    /\ last.o.resp.t = "dict" /\ FieldOf(last.o.resp, "Status").t = "uint"
    /\ last.o.res = MCINSTALL_E_PLIST_ERROR
    /\ TimesReleased(FieldOf(last.o.resp, "Status").id) = 1

(***************************************************************************)
(* C4: remove with a null client, without identifier, without uuid or with *)
(* version 0 returns InvalidArgument and neither sends nor receives.       *)
(***************************************************************************)
C4_RemoveRefusesBeforeIO ==
    (last.op = "remove" /\ (\/ last.cnull
                            \/ last.ident = NullString
                            \/ last.uuid = NullString
                            \/ last.version = Zero64)) =>
        /\ last.o.res = MCINSTALL_E_INVALID_ARG
        /\ last.o.nsend = 0 /\ last.o.nrecv = 0
        /\ IsNull(last.o.req)

C4_Witness ==
    /\ last.op = "remove" /\ ~last.cnull /\ last.handle = "live"
    /\ last.ident = "p1" /\ last.uuid = "u1" /\ last.version = Zero64
    /\ last.o.res = MCINSTALL_E_INVALID_ARG /\ last.o.nsend = 0

(***************************************************************************)
(* C5 as claimed: install returns InvalidArgument before any channel I/O   *)
(* when the client is null or not connected, the profile is absent, is no  *)
(* binary-data node, or is an empty binary payload.                        *)
(***************************************************************************)
C5_InstallRefusesEmptyPayload ==
    (last.op = "install" /\ (\/ last.cnull
                             \/ ~last.connected
                             \/ IsNull(last.profile)
                             \/ last.profile.t # "data"
                             \/ last.profile.b = <<>>)) =>
        /\ last.o.res = MCINSTALL_E_INVALID_ARG
        /\ last.o.nsend = 0 /\ last.o.nrecv = 0

(***************************************************************************)
(* C5 as amended: install returns InvalidArgument before any channel I/O   *)
(* when the client is null or not connected, the profile is absent or is   *)
(* no binary-data node; an empty binary payload is not refused, it is sent *)
(* like any other payload.                                                 *)
(***************************************************************************)
C5_InstallRefusesBeforeIO ==
    /\ (last.op = "install" /\ (\/ last.cnull
                                \/ ~last.connected
                                \/ IsNull(last.profile)
                                \/ last.profile.t # "data")) =>
           /\ last.o.res = MCINSTALL_E_INVALID_ARG
           /\ last.o.nsend = 0 /\ last.o.nrecv = 0
    /\ (last.op = "install" /\ ~last.cnull /\ last.connected
        /\ last.profile.t = "data" /\ last.profile.b = <<>>) =>
           /\ last.o.nsend = 1
           /\ FieldOf(last.o.req, "Payload").t = "data"
           /\ FieldOf(last.o.req, "Payload").b = <<>>

C5_Witness ==
    /\ last.op = "install" /\ ~last.cnull /\ last.handle = "live"
    /\ last.profile.t = "string"
    /\ last.o.res = MCINSTALL_E_INVALID_ARG /\ last.o.nsend = 0

(***************************************************************************)
(* C6: for a valid non-empty payload, one call of install makes exactly    *)
(* one send; the request sent has exactly the fields RequestType =         *)
(* "InstallProfile" and Payload; Payload holds the bytes passed in, in a   *)
(* copy: the caller's profile node is not released.                        *)
(***************************************************************************)
C6_InstallRequest ==
    (last.op = "install" /\ ~last.cnull /\ last.connected
     /\ last.profile.t = "data" /\ last.profile.b # <<>>) =>
        /\ last.o.nsend = 1
        /\ Val(last.o.req) = PDict(<<"RequestType", plist_new_string("InstallProfile"),
                                     "Payload", plist_new_data(last.profile.b)>>)
        /\ Ids(last.o.req) \cap Ids(last.profile) = {}
        /\ \A id \in Ids(last.profile) : TimesReleased(id) = 0

C6_Witness ==
    /\ last.op = "install" /\ ~last.cnull
    /\ last.profile.t = "data" /\ Len(last.profile.b) = 2
    /\ last.o.nsend = 1 /\ last.o.res = MCINSTALL_E_SUCCESS
    /\ FieldOf(last.o.req, "Payload").b = last.profile.b

(***************************************************************************)
(* Reading a binary plist back, as the device does with ProfileIdentifier: *)
(* the objects are read in order, a uint from as many bytes as its marker  *)
(* says, and the dict is rebuilt from the references to them.              *)
(***************************************************************************)
RECURSIVE ReadObjects(_, _)
ReadObjects(b, pos) ==
    IF pos > Len(b) \/ b[pos].k = "trailer" THEN <<>>
    ELSE IF b[pos].k = "uint"
    THEN <<plist_new_uint(U64([i \in 1..b[pos].v |-> b[pos + i].v]))>>
         \o ReadObjects(b, pos + 1 + b[pos].v)
    ELSE <<plist_new_string(b[pos].s)>> \o ReadObjects(b, pos + 1)

plist_from_bin(b) ==
    IF Len(b) < 3 \/ b[1] # Tok("magic", "bplist00", 0) \/ b[2].k # "dict" THEN NullNode
    ELSE LET count == b[2].v
             objs == ReadObjects(b, 3 + 2 * count)
         IN  IF b[Len(b)] # Tok("trailer", "", Len(objs) + 1) THEN NullNode
             ELSE [plist_new_dict EXCEPT !.kids =
                      [j \in 1..(2 * count) |->
                          IF j % 2 = 1 THEN PKey(objs[b[2 + (j + 1) \div 2].v].s)
                          ELSE objs[b[2 + count + j \div 2].v]]]

(***************************************************************************)
(* C7: for every identifier, uuid and version other than 0, remove sends   *)
(* {RequestType: "RemoveProfile", ProfileIdentifier: <binary>}, and the    *)
(* binary reads back as the dict {PayloadType: "Configuration",            *)
(* PayloadIdentifier, PayloadUUID, PayloadVersion} of the triple passed.   *)
(***************************************************************************)
C7_RemoveDescriptorRoundTrip ==
    (last.op = "remove" /\ ~last.cnull /\ last.connected /\ last.ident # NullString
     /\ last.uuid # NullString /\ last.version # Zero64) =>
        /\ last.o.nsend = 1
        /\ Len(last.o.req.kids) = 4
        /\ Val(FieldOf(last.o.req, "RequestType")) = plist_new_string("RemoveProfile")
        /\ FieldOf(last.o.req, "ProfileIdentifier").t = "data"
        /\ plist_from_bin(FieldOf(last.o.req, "ProfileIdentifier").b)
              = PDict(<<"PayloadType", plist_new_string("Configuration"),
                        "PayloadIdentifier", plist_new_string(last.ident),
                        "PayloadUUID", plist_new_string(last.uuid),
                        "PayloadVersion", plist_new_uint(last.version)>>)

C7_Witness ==
    /\ last.op = "remove" /\ ~last.cnull /\ last.o.nsend = 1
    /\ last.ident = "p1" /\ last.uuid = "p1" /\ last.version = U64(<<1, 0, 0>>)
    /\ FieldOf(plist_from_bin(FieldOf(last.o.req, "ProfileIdentifier").b),
               "PayloadVersion").n = last.version

(***************************************************************************)
(* C8: when list classifies the answer as Success, the caller receives the *)
(* answer dict as it came from the channel, with all its fields (Status,   *)
(* OrderedIdentifiers, ProfileMetadata); when list fails, the caller's     *)
(* listing is left as it was.                                              *)
(***************************************************************************)
C8_ListingIsTheAnswer ==
    (last.op = "list" /\ ~last.o.fault) =>
        /\ (RoundTrip /\ last.o.res = MCINSTALL_E_SUCCESS) =>
               Val(profiles) = Val(last.o.resp)
        /\ last.o.res # MCINSTALL_E_SUCCESS => profiles = last.pre_profiles

(***************************************************************************)
(* C9: list against a device that reports no profile (an acknowledged      *)
(* answer whose OrderedIdentifiers is empty) returns Success, and the      *)
(* listing handed to the caller holds the empty OrderedIdentifiers array.  *)
(***************************************************************************)
ReportsNoProfile(r) ==
    /\ HasStringStatus(r) /\ FieldOf(r, "Status").s = "Acknowledged"
    /\ FieldOf(r, "OrderedIdentifiers").t = "array"
    /\ FieldOf(r, "OrderedIdentifiers").kids = <<>>

C10_CloseTwiceIsRefused ==
    last.op = "free" =>
        /\ (~last.cnull /\ last.handle = "live") =>
               (last.o.res = MCINSTALL_E_SUCCESS /\ chanFrees = 1)
        /\ last.cnull => last.o.res = MCINSTALL_E_INVALID_ARG
        /\ (~last.cnull /\ last.handle = "freed") =>
               (last.o.res = MCINSTALL_E_INVALID_ARG /\ ~crashed /\ chanFrees = 1
                /\ memFrees = 1)

(***************************************************************************)
(* C10 as amended: closing a live client releases its channel exactly once *)
(* and the client once, whatever operations came before; closing a null    *)
(* handle returns InvalidArgument and releases nothing; closing a handle   *)
(* that was closed already is not refused: the call never returns          *)
(* InvalidArgument, it faults or releases the client a second time.        *)
(***************************************************************************)
C10_CloseReleasesOnce ==
    /\ handle \in {"none", "live"} => (chanFrees = 0 /\ memFrees = 0)
    /\ last.op = "free" =>
        /\ (~last.cnull /\ last.handle = "live") =>
               /\ last.o.res = MCINSTALL_E_SUCCESS /\ ~crashed
               /\ chanFrees = 1 /\ memFrees = 1
               /\ handle = "freed" /\ client.parent = "NULL"
        /\ last.cnull =>
               /\ last.o.res = MCINSTALL_E_INVALID_ARG /\ ~crashed
               /\ handle = last.handle
        /\ (~last.cnull /\ last.handle = "freed") =>
               /\ last.o.res # MCINSTALL_E_INVALID_ARG
               /\ crashed \/ memFrees >= 2

C10_Witness ==
    /\ last.op = "free" /\ ~last.cnull /\ last.handle = "live"
    /\ last.pre_error = MCINSTALL_E_UNKNOWN_ERROR
    /\ last.o.res = MCINSTALL_E_SUCCESS /\ chanFrees = 1 /\ memFrees = 1

(***************************************************************************)
(* The send or the receive of the last call reported a failure, and the    *)
(* code that the channel gave for it.                                      *)
(***************************************************************************)
TransportFailed ==
    /\ IsOperation /\ last.o.nsend = 1
    /\ \/ last.o.senderr # "PLS_E_SUCCESS"
       \/ last.o.nrecv = 1 /\ last.o.recverr # "PLS_E_SUCCESS"

FailureCode == IF last.o.senderr # "PLS_E_SUCCESS" THEN last.o.senderr ELSE last.o.recverr

(***************************************************************************)
(* C11 as claimed: every failure of the send or of the receive inside      *)
(* install, list or remove, whatever error the channel reports, is         *)
(* returned to the caller as ConnectionFailed.                             *)
(***************************************************************************)
C11_TransportFailureIsConnectionFailed ==
    TransportFailed => last.o.res = MCINSTALL_E_CONN_FAILED

(***************************************************************************)
(* C11 as amended: a failure of the send or of the receive is returned as  *)
(* the error kind that matches the channel's code: ConnectionFailed for a  *)
(* mux error only, InvalidArgument for an invalid argument, ProtocolError  *)
(* for a plist error, and UnknownError for every other code (SSL error,    *)
(* receive timeout, unknown error); never as Success.                      *)
(***************************************************************************)
C11_TransportFailureIsMapped ==
    TransportFailed =>
        /\ last.o.res # MCINSTALL_E_SUCCESS
        /\ (last.o.res = MCINSTALL_E_CONN_FAILED) <=> (FailureCode = "PLS_E_MUX_ERROR")
        /\ (last.o.res = MCINSTALL_E_INVALID_ARG) <=> (FailureCode = "PLS_E_INVALID_ARG")
        /\ (last.o.res = MCINSTALL_E_PLIST_ERROR) <=> (FailureCode = "PLS_E_PLIST_ERROR")
        /\ (last.o.res = MCINSTALL_E_UNKNOWN_ERROR) <=>
              (FailureCode \in {"PLS_E_SSL_ERROR", "PLS_E_RECEIVE_TIMEOUT",
                                "PLS_E_UNKNOWN_ERROR"})

C11_Witness ==
    /\ last.op = "list" /\ TransportFailed
    /\ last.o.senderr = "PLS_E_SUCCESS" /\ last.o.recverr = "PLS_E_MUX_ERROR"
    /\ last.o.res = MCINSTALL_E_CONN_FAILED

(***************************************************************************)
(* C12: each install, list or remove call makes at most one send and at    *)
(* most one receive; the receive only after the send succeeded, and the    *)
(* classification only after the receive succeeded; after a failure        *)
(* nothing is sent or received again and the failure is what the call      *)
(* returns.                                                                *)
(***************************************************************************)
C12_OneSendOneReceive ==
    IsOperation =>
        /\ last.o.nsend \in {0, 1} /\ last.o.nrecv \in {0, 1}
        /\ last.o.nrecv = 1 => (last.o.nsend = 1 /\ last.o.senderr = "PLS_E_SUCCESS")
        /\ (~IsNull(last.o.resp) \/ last.o.out # <<>> \/ last.o.fault) =>
               (last.o.nrecv = 1 /\ last.o.recverr = "PLS_E_SUCCESS")
        /\ (last.o.nsend = 1 /\ last.o.senderr # "PLS_E_SUCCESS") =>
               (last.o.nrecv = 0 /\ last.o.res # MCINSTALL_E_SUCCESS)
        /\ (last.o.nrecv = 1 /\ last.o.recverr # "PLS_E_SUCCESS") =>
               (IsNull(last.o.resp) /\ last.o.res # MCINSTALL_E_SUCCESS)

C12_Witness ==
    /\ last.op = "remove" /\ last.o.nsend = 1 /\ last.o.senderr = "PLS_E_MUX_ERROR"
    /\ last.o.nrecv = 0 /\ last.o.res = MCINSTALL_E_CONN_FAILED

(***************************************************************************)
(* C13 as claimed: install fails with RequestFailed whenever the device    *)
(* reports an error status (a well-formed answer whose Status is "Error"). *)
(***************************************************************************)
ReportsError(r) == HasStringStatus(r) /\ FieldOf(r, "Status").s = "Error"

Incomplete == IsOperation /\ ~last.cnull /\ (last.o.nsend = 0 \/ TransportFailed)

C14_EveryCallResetsStatus ==
    Incomplete =>
        /\ client.last_error = MCINSTALL_E_UNKNOWN_ERROR
        /\ (status.asked /\ ~status.cnull) => status.val = MCINSTALL_E_UNKNOWN_ERROR

(***************************************************************************)
(* C14 as amended: a call that passes the test of its arguments resets     *)
(* lastStatus to "unknown" before it sends, and lastStatus is "unknown"    *)
(* when the send or the receive then fails; a call that is rejected with   *)
(* InvalidArgument does not touch lastStatus: lastStatusCode after it      *)
(* reports what the earlier call, or connect (0), left.                    *)
(***************************************************************************)
C14_ResetAfterArgumentCheck ==
    (IsOperation /\ ~last.cnull) =>
        /\ TransportFailed =>
              /\ client.last_error = MCINSTALL_E_UNKNOWN_ERROR
              /\ (status.asked /\ ~status.cnull) => status.val = MCINSTALL_E_UNKNOWN_ERROR
        /\ last.o.nsend = 0 =>
              /\ last.o.res = MCINSTALL_E_INVALID_ARG
              /\ client.last_error = last.pre_error
              /\ (status.asked /\ ~status.cnull) => status.val = last.pre_error

C14_Witness ==
    /\ last.op = "list" /\ ~last.cnull /\ TransportFailed
    /\ last.pre_error = STATUS_INITIAL
    /\ status.asked /\ ~status.cnull /\ status.val = MCINSTALL_E_UNKNOWN_ERROR

(***************************************************************************)
(* C15: lastStatusCode returns -1 for a null client and the cached status  *)
(* otherwise; it makes no exchange and changes nothing of the client, and  *)
(* consecutive queries with no operation in between return the same value. *)
(***************************************************************************)
C15_StatusCodeIsARead ==
    /\ [](status.asked =>
            status.val = IF status.cnull THEN -1 ELSE client.last_error)
    /\ [][(status'.asked /\ status' # status) =>
            UNCHANGED <<handle, client, chanFrees, memFrees, profiles, last, crashed,
                        wire>>]_vars
    /\ [][(status.asked /\ status'.asked /\ status'.cnull = status.cnull) =>
            status'.val = status.val]_vars

C15_Witness ==
    /\ status.asked /\ ~status.cnull /\ status.times = 2
    /\ last.op = "install" /\ status.val = MCINSTALL_E_UNKNOWN_ERROR

(***************************************************************************)
(* C16: connect returns InvalidArgument when the device, the service       *)
(* descriptor or the pointer to the caller's handle is null, and           *)
(* ConnectionFailed when the channel cannot be built; whenever it fails no *)
(* client is allocated and the caller's handle is left untouched; on       *)
(* success the new client owns the channel that was built.                 *)
(***************************************************************************)
C16_ConnectChecksItsInputs ==
    last.op = "new" =>
        /\ (last.device = "NULL" \/ last.service = "NULL" \/ ~last.hasout) =>
               (~crashed /\ last.o.res = MCINSTALL_E_INVALID_ARG)
        /\ (last.device # "NULL" /\ last.service # "NULL" /\ last.hasout
            /\ last.made # "PLS_E_SUCCESS") => last.o.res = MCINSTALL_E_CONN_FAILED
        /\ (crashed \/ last.o.res # MCINSTALL_E_SUCCESS) =>
               (~crashed /\ handle = "none" /\ client = NullClient)
        /\ last.o.res = MCINSTALL_E_SUCCESS =>
               (handle = "live" /\ client.parent = "chan")

(***************************************************************************)
(* C17: for an answer with Status "Error" the classifier emits the         *)
(* LocalizedDescription of every ErrorChain entry that is a dict with a    *)
(* string LocalizedDescription, in the order of the chain, and skips the   *)
(* other entries; the result is ProtocolError whatever the ErrorChain is   *)
(* (absent, no array, empty, without descriptions).                        *)
(***************************************************************************)
RECURSIVE Descriptions(_, _)
Descriptions(chain, j) ==
    IF j > Len(chain.kids) THEN <<>>
    ELSE LET d == FieldOf(chain.kids[j], "LocalizedDescription")
         IN  (IF d.t = "string" THEN <<d.s>> ELSE <<>>) \o Descriptions(chain, j + 1)

C17_ErrorChainIsEmitted ==
    (RoundTrip /\ ReportsError(last.o.resp)) =>
        LET chain == FieldOf(last.o.resp, "ErrorChain")
        IN  /\ ~last.o.fault
            /\ last.o.res = MCINSTALL_E_PLIST_ERROR
            /\ [i \in DOMAIN last.o.out |-> last.o.out[i].s]
                  = IF chain.t = "array" THEN Descriptions(chain, 1) ELSE <<>>

(***************************************************************************)
(* C20: under sequential use of one client over a FIFO channel on which    *)
(* the device answers each request exactly once, the answer that a call    *)
(* classifies is the device's answer to the request of that same call,     *)
(* also when an earlier call failed at its receive after its request had   *)
(* been sent.                                                              *)
(***************************************************************************)
C20_AnswerBelongsToRequest ==
    RoundTrip => (wire.own # 0 /\ wire.got = wire.own)

(***************************************************************************)
(* What the traversal of a listing is expected to read for its i-th entry: *)
(* the identifier, and the uuid, display name and version of the metadata  *)
(* stored under it; NullString or 0 stands for a field that is absent or   *)
(* of another type.                                                        *)
(***************************************************************************)
TextOf(node) == IF node.t = "string" THEN node.s ELSE NullString

ExpectedEntry(ids, metadata, i) ==
    LET md == IF ids.kids[i].t = "string" THEN FieldOf(metadata, ids.kids[i].s)
              ELSE NullNode
        vers == FieldOf(md, "PayloadVersion")
    IN  [j |-> i - 1, iden |-> TextOf(ids.kids[i]),
         uuid |-> TextOf(FieldOf(md, "PayloadUUID")),
         name |-> TextOf(FieldOf(md, "PayloadDisplayName")),
         vers |-> IF vers.t = "uint" THEN vers.n ELSE Zero64]

(***************************************************************************)
(* C18: once the tool has found OrderedIdentifiers and ProfileMetadata in  *)
(* a listing, its loop visits every entry of OrderedIdentifiers once, in   *)
(* order, with the metadata stored under the identifier; an identifier,    *)
(* metadata dict, uuid, version or name that is absent or of another type  *)
(* is read as a placeholder and never stops the process, for list, remove  *)
(* and remove-all alike.                                                   *)
(***************************************************************************)
C18_TraversalToleratesEntries ==
    (cli.pc \in {"loop", "cleanup", "close", "exit", "aborted"} /\ cli.oi.t = "array") =>
        /\ cli.pc # "aborted"
        /\ Len(cli.visited) = IF cli.pc = "loop" THEN cli.j ELSE Len(cli.oi.kids)
        /\ \A i \in 1..Len(cli.visited) :
              cli.visited[i] = ExpectedEntry(cli.oi, cli.pm, i)

(***************************************************************************)
(* C19: remove-all asks for the listing once and then calls remove once    *)
(* for each entry of the OrderedIdentifiers the device answered, in order, *)
(* with the uuid and the version of that listing; a remove that fails does *)
(* not stop the removes that follow, and none is made twice.               *)
(***************************************************************************)
AnswersListing(r) ==
    /\ HasStringStatus(r) /\ FieldOf(r, "Status").s = "Acknowledged"
    /\ FieldOf(r, "OrderedIdentifiers").t = "array"
    /\ FieldOf(r, "ProfileMetadata").t = "dict"

C19_RemoveAllRemovesEach ==
    (cli.pc \in {"close", "exit", "aborted"} /\ cli.op = OP_REMOVE_ALL
     /\ AnswersListing(cli.answer)) =>
        LET ids == FieldOf(cli.answer, "OrderedIdentifiers")
            metadata == FieldOf(cli.answer, "ProfileMetadata")
            lists == SelectSeq(cli.calls, LAMBDA c : c.op = "list")
            removes == SelectSeq(cli.calls, LAMBDA c : c.op = "remove")
        IN  /\ cli.pc # "aborted"
            /\ Len(lists) = 1
            /\ Len(removes) = Len(ids.kids)
            /\ \A i \in 1..Len(removes) :
                  LET e == ExpectedEntry(ids, metadata, i)
                  IN  /\ removes[i].ident = e.iden
                      /\ removes[i].uuid = e.uuid
                      /\ removes[i].version = e.vers

\* the client was made: the first call of main on the library succeeded
CliCreated ==
    /\ cli.pc # "off" /\ Len(cli.calls) >= 1
    /\ cli.calls[1].op = "new" /\ cli.calls[1].res = MCINSTALL_E_SUCCESS

\* the positions of the closes among the calls of main
CliCloses == {i \in 1..Len(cli.calls) : cli.calls[i].op = "free"}

\* the process is over: main returned, or the process was stopped
CliOver == cli.pc \in {"exit", "aborted"}

(***************************************************************************)
(* C21: in every run of the CLI that made the client, the client is closed *)
(* exactly once, after the last install, list, remove or status-code call  *)
(* of the run, on every path; nothing is called on the client after the    *)
(* close.  As a state predicate: there is never more than one close, a     *)
(* close is the last call made, and a run that is over has made one.       *)
(***************************************************************************)
C21_ClientClosedOnce ==
    CliCreated =>
        /\ Cardinality(CliCloses) <= 1
        /\ \A i \in CliCloses : i = Len(cli.calls)
        /\ CliOver => /\ Cardinality(CliCloses) = 1
                      /\ chanFrees = 1 /\ memFrees = 1

\* a line of the given kind was printed
CliPrinted(what) == \E i \in 1..Len(cli.out) : cli.out[i].what = what

\* the requested command did not succeed: the client could not be made, the
\* file could not be read, an install, list or remove call failed, the
\* listing was malformed, or remove found no profile with the identifier
CliCommandFailed ==
    \/ \E i \in 1..Len(cli.calls) :
          /\ cli.calls[i].op \in {"new", "install", "list", "remove"}
          /\ cli.calls[i].res # MCINSTALL_E_SUCCESS
    \/ CliPrinted("Could not read")
    \/ CliPrinted("Malformed output")
    \/ /\ cli.op = OP_REMOVE
       /\ ~\E i \in 1..Len(cli.calls) : cli.calls[i].op = "remove"

(***************************************************************************)
(* C22: the exit status of the CLI is non-zero whenever the requested      *)
(* command did not succeed: a failed install, a failed remove or a remove  *)
(* whose identifier matches no listed profile, a failed remove within      *)
(* remove-all and an unreadable profile file yield a non-zero exit status, *)
(* as a failed or malformed listing does.                                  *)
(***************************************************************************)
C22_FailureIsNonZeroExit ==
    (cli.pc = "exit" /\ CliCommandFailed) => cli.exit # 0

\* the error kind the claim gives for a channel code
MappedKind(err) ==
    IF err = "PLS_E_SUCCESS" THEN MCINSTALL_E_SUCCESS
    ELSE IF err = "PLS_E_INVALID_ARG" THEN MCINSTALL_E_INVALID_ARG
    ELSE IF err = "PLS_E_PLIST_ERROR" THEN MCINSTALL_E_PLIST_ERROR
    ELSE IF err = "PLS_E_MUX_ERROR" THEN MCINSTALL_E_CONN_FAILED
    ELSE MCINSTALL_E_UNKNOWN_ERROR

(***************************************************************************)
(* C23: the mapping of channel errors is a total function: success maps to *)
(* Success, invalid argument to InvalidArgument, plist error to            *)
(* ProtocolError, mux error to ConnectionFailed and every other code to    *)
(* UnknownError; a failed send or receive is returned as the kind its code *)
(* maps to, and an operation returns Success only if both its send and its *)
(* receive reported success.                                               *)
(***************************************************************************)
C23_MappingIsTotal ==
    /\ \A err \in PLS_ERRORS : mcinstall_error(err) = MappedKind(err)
    /\ IsOperation =>
          /\ (last.o.nsend = 1 /\ last.o.senderr # "PLS_E_SUCCESS") =>
                 last.o.res = MappedKind(last.o.senderr)
          /\ (last.o.nrecv = 1 /\ last.o.recverr # "PLS_E_SUCCESS") =>
                 last.o.res = MappedKind(last.o.recverr)
          /\ last.o.res = MCINSTALL_E_SUCCESS =>
                 /\ last.o.nsend = 1 /\ last.o.senderr = "PLS_E_SUCCESS"
                 /\ last.o.nrecv = 1 /\ last.o.recverr = "PLS_E_SUCCESS"

C23_Witness ==
    /\ IsOperation /\ last.o.nsend = 1 /\ last.o.senderr = "PLS_E_SUCCESS"
    /\ last.o.nrecv = 1 /\ last.o.recverr = "PLS_E_SSL_ERROR"
    /\ last.o.res = MCINSTALL_E_UNKNOWN_ERROR

====
